---- MODULE Spec2Model ----
(***************************************************************************)
(* Thinkers Shelf cart logic (src/cart.js): the cart persisted in          *)
(* localStorage under CART_KEY, the mutations addToCart, removeFromCart,   *)
(* updateQuantity and clearCart, the count badge, the cart and checkout    *)
(* views, and the one-second "Added!" feedback of the add buttons.         *)
(*                                                                         *)
(* Strings the code inspects character by character (image paths) are      *)
(* sequences of one-character strings; the text stored in localStorage is  *)
(* a JSON document whose objects are member lists <<key, value>>, while    *)
(* the objects the code works on in memory are records, so that            *)
(* JSON.stringify and JSON.parse are conversions between the two.          *)
(***************************************************************************)
EXTENDS Integers, Sequences, FiniteSets, TLC

VARIABLES
  storage,       \* localStorage entry under CART_KEY
  loaded,        \* init() has run on this page (the click listener is registered)
  page,          \* the document: page depth, mount points, count elements, buttons
  countText,     \* textContent of each [data-cart-count] element
  cartView,      \* innerHTML of #cart-mount
  cartTotal,     \* textContent of #cart-total-amount
  checkoutView,  \* innerHTML of #checkout-mount
  checkoutTotal, \* textContent of #checkout-total
  btnText,       \* textContent of the [data-id] button of each id
  btnGold,       \* whether that button carries the class text-gold
  timers,        \* pending setTimeout callbacks, in the order they were set
  err,           \* the error the last handler threw, "none" if it returned
  lastOp,        \* history: the last mutation called, its arguments and what it met
  hist           \* history: per id, the addToCart calls since the id was absent

vars == << storage, loaded, page, countText, cartView, cartTotal, checkoutView,
           checkoutTotal, btnText, btnGold, timers, err, lastOp, hist >>

dom == << countText, cartView, cartTotal, checkoutView, checkoutTotal >>

buttons == << btnText, btnGold, timers >>

----------------------------------------------------------------------------
(* Bounds of the model *)

\* largest quantity an item is driven to
MaxQty == 2

\* largest absolute value of the delta passed to updateQuantity
MaxDelta == 2

\* largest number of feedback timers pending at once
MaxTimers == 2

\* largest number of segments an image path of the path check is built from
MaxSegments == 2

----------------------------------------------------------------------------
(* Strings as character sequences *)

StartsWith(s, p) == Len(s) >= Len(p) /\ SubSeq(s, 1, Len(p)) = p

\* indices at which pat occurs in s
Occurrences(s, pat) ==
  { i \in 1..(Len(s) - Len(pat) + 1) : SubSeq(s, i, i + Len(pat) - 1) = pat }

\* String.prototype.replace with a string pattern: the first occurrence only
ReplaceFirst(s, pat, rep) ==
  IF Occurrences(s, pat) = {} THEN s
  ELSE LET i == CHOOSE k \in Occurrences(s, pat) :
                   \A j \in Occurrences(s, pat) : k <= j
       IN  SubSeq(s, 1, i - 1) \o rep \o SubSeq(s, i + Len(pat), Len(s))

ParentPrefix == << ".", ".", "/" >>

HttpPrefix == << "h", "t", "t", "p" >>

SlashSlash == << "/", "/" >>

AssetsCover ==
  << "a", "s", "s", "e", "t", "s", "/", "c", "o", "v", "e", "r", ".", "j", "p", "g" >>

UpAssetsCover == ParentPrefix \o AssetsCover

UpUpAssetsCover == ParentPrefix \o ParentPrefix \o AssetsCover

\* the image paths of the product descriptors
Cover == << "a", "/", "c", ".", "j", "p", "g" >>

UpCover == ParentPrefix \o Cover

UpUpCover == ParentPrefix \o ParentPrefix \o Cover

HttpCover == HttpPrefix \o << ":", "/", "/", "x", "/", "y", ".", "j", "p", "g" >>

----------------------------------------------------------------------------
(* Path helpers *)

\* resolveImagePath without the test for a protocol-relative "//" path
resolveImagePath_NoProtocolRelative(rawPath, isDetailsPage) ==
  IF rawPath = << >> THEN << >>
  ELSE IF StartsWith(rawPath, HttpPrefix) THEN rawPath
  ELSE LET hasParentTraversal == StartsWith(rawPath, ParentPrefix)
       IN  IF isDetailsPage /\ ~hasParentTraversal THEN ParentPrefix \o rawPath
           ELSE IF ~isDetailsPage /\ hasParentTraversal
           THEN ReplaceFirst(rawPath, ParentPrefix, << >>)
           ELSE rawPath

resolveImagePath(rawPath, isDetailsPage) ==
  IF rawPath = << >> THEN << >>
  ELSE IF StartsWith(rawPath, HttpPrefix) \/ StartsWith(rawPath, SlashSlash)
  THEN rawPath
  ELSE LET hasParentTraversal == StartsWith(rawPath, ParentPrefix)
       IN  IF isDetailsPage /\ ~hasParentTraversal THEN ParentPrefix \o rawPath
           ELSE IF ~isDetailsPage /\ hasParentTraversal
           THEN ReplaceFirst(rawPath, ParentPrefix, << >>)
           ELSE rawPath

\* path.replace(/^\.\.\//, ""): one leading "../" is removed
normalizePathForStorage(path) ==
  IF StartsWith(path, ParentPrefix) THEN SubSeq(path, Len(ParentPrefix) + 1, Len(path))
  ELSE path

----------------------------------------------------------------------------
(* Values of the page script *)

JsNull == [t |-> "null"]

JsNumber(n) == [t |-> "number", n |-> n]

\* an object that is not an array
JsObject == [t |-> "object"]

JsArray(a) == [t |-> "array", a |-> a]

IsArray(v) == v.t = "array"

----------------------------------------------------------------------------
(* localStorage and JSON *)

CART_KEY == "thinkers_shelf_cart_v2"

\* localStorage.getItem(CART_KEY) gives null: nothing is stored under the key
NoEntry == [k |-> "absent"]

\* the empty string is stored
EmptyText == [k |-> "empty"]

\* a string that is not JSON is stored
NotJsonText == [k |-> "garbage"]

\* the JSON text of document doc is stored
JsonText(doc) == [k |-> "json", doc |-> doc]

\* the members JSON.stringify writes for a cart item, in property order
Members(item) ==
  << << "id", item.id >>, << "title", item.title >>, << "price", item.price >>,
     << "image", item.image >>, << "quantity", item.quantity >> >>

Member(m, key) == m[CHOOSE i \in 1..Len(m) : m[i][1] = key][2]

\* JSON.stringify(cart) of an array of cart items
JSONstringify(cart) ==
  JsonText([t |-> "array", a |-> [i \in 1..Len(cart.a) |-> Members(cart.a[i])]])

\* JSON.parse(raw): ok = FALSE when it throws a SyntaxError
JSONparse(raw) ==
  IF raw.k # "json" THEN [ok |-> FALSE, v |-> JsNull]
  ELSE IF raw.doc.t = "array"
  THEN [ok |-> TRUE,
        v |-> JsArray([i \in 1..Len(raw.doc.a) |->
                 [id |-> Member(raw.doc.a[i], "id"),
                  title |-> Member(raw.doc.a[i], "title"),
                  price |-> Member(raw.doc.a[i], "price"),
                  image |-> Member(raw.doc.a[i], "image"),
                  quantity |-> Member(raw.doc.a[i], "quantity")]])]
  ELSE [ok |-> TRUE, v |-> raw.doc]

\* raw ? JSON.parse(raw) : [] inside try/catch: null and "" are falsy
getCart(raw) ==
  IF raw.k \in {"absent", "empty"} THEN JsArray(<< >>)
  ELSE LET parsed == JSONparse(raw)
       IN  IF parsed.ok THEN parsed.v ELSE JsArray(<< >>)

----------------------------------------------------------------------------
(* Inputs: product descriptors and documents *)

Ids == {"b1", "b2"}

DuneRoot == [id |-> "b1", title |-> "Dune", price |-> 1000, image |-> Cover]

DuneDetails ==
  [id |-> "b1", title |-> "Dune (2nd ed.)", price |-> 1200, image |-> UpCover]

EmmaDeep == [id |-> "b2", title |-> "Emma", price |-> 2500, image |-> UpUpCover]

Products == {DuneRoot, DuneDetails, EmmaDeep}

SpanEl == [tag |-> "SPAN", badge |-> FALSE]

LinkEl == [tag |-> "A", badge |-> FALSE]

BadgeDivEl == [tag |-> "DIV", badge |-> TRUE]

CataloguePage ==
  [nested |-> FALSE, cartMount |-> FALSE, cartTotalEl |-> FALSE,
   checkoutMount |-> FALSE, checkoutTotalEl |-> FALSE,
   countEls |-> << SpanEl >>, products |-> {EmmaDeep}]

DetailsPage ==
  [nested |-> TRUE, cartMount |-> FALSE, cartTotalEl |-> FALSE,
   checkoutMount |-> FALSE, checkoutTotalEl |-> FALSE,
   countEls |-> << LinkEl >>, products |-> {DuneDetails}]

CartPage ==
  [nested |-> FALSE, cartMount |-> TRUE, cartTotalEl |-> TRUE,
   checkoutMount |-> FALSE, checkoutTotalEl |-> FALSE,
   countEls |-> << SpanEl, LinkEl >>, products |-> {}]

CheckoutPage ==
  [nested |-> FALSE, cartMount |-> FALSE, cartTotalEl |-> FALSE,
   checkoutMount |-> TRUE, checkoutTotalEl |-> TRUE,
   countEls |-> << BadgeDivEl >>, products |-> {}]

\* a nested cart page without a total element that also offers a book
CartWithOfferPage ==
  [nested |-> TRUE, cartMount |-> TRUE, cartTotalEl |-> FALSE,
   checkoutMount |-> FALSE, checkoutTotalEl |-> FALSE,
   countEls |-> << >>, products |-> {DuneRoot}]

Layouts == {CataloguePage, DetailsPage, CartPage, CheckoutPage, CartWithOfferPage}

\* the deltas updateQuantity is called with
Deltas == (-MaxDelta)..MaxDelta

----------------------------------------------------------------------------
(* Cart items *)

Has(items, id) == \E i \in 1..Len(items) : items[i].id = id

\* cart.find((x) => x.id === id): the first item with that id
Find(items, id) ==
  CHOOSE i \in 1..Len(items) :
    items[i].id = id /\ \A j \in 1..(i - 1) : items[j].id # id

QtyOf(items, id) == IF Has(items, id) THEN items[Find(items, id)].quantity ELSE 0

\* AddedItems without the lookup of an existing item: always pushes
AddedItems_AlwaysPush(items, product) ==
  Append(items, [id |-> product.id, title |-> product.title,
                 price |-> product.price,
                 image |-> normalizePathForStorage(product.image),
                 quantity |-> 1])

\* AddedItems that also takes title, price and image from the new descriptor
AddedItems_Refresh(items, product) ==
  IF Has(items, product.id)
  THEN [items EXCEPT ![Find(items, product.id)] =
          [id |-> product.id, title |-> product.title, price |-> product.price,
           image |-> normalizePathForStorage(product.image),
           quantity |-> @.quantity + 1]]
  ELSE Append(items, [id |-> product.id, title |-> product.title,
                      price |-> product.price,
                      image |-> normalizePathForStorage(product.image),
                      quantity |-> 1])

\* AddedItems that sets the quantity of an existing item to 1 (= 1 for += 1)
AddedItems_Overwrite(items, product) ==
  IF Has(items, product.id)
  THEN [items EXCEPT ![Find(items, product.id)].quantity = 1]
  ELSE Append(items, [id |-> product.id, title |-> product.title,
                      price |-> product.price,
                      image |-> normalizePathForStorage(product.image),
                      quantity |-> 1])

\* AddedItems that puts a new item in front of the others (unshift for push)
AddedItems_Unshift(items, product) ==
  IF Has(items, product.id)
  THEN [items EXCEPT ![Find(items, product.id)].quantity = @ + 1]
  ELSE << [id |-> product.id, title |-> product.title, price |-> product.price,
           image |-> normalizePathForStorage(product.image),
           quantity |-> 1] >> \o items

\* lines 68-78: increment the existing item, or push a new one
AddedItems(items, product) ==
  IF Has(items, product.id)
  THEN [items EXCEPT ![Find(items, product.id)].quantity = @ + 1]
  ELSE Append(items, [id |-> product.id, title |-> product.title,
                      price |-> product.price,
                      image |-> normalizePathForStorage(product.image),
                      quantity |-> 1])

\* FilteredItems with the test inverted: keeps the item it should drop
FilteredItems_Inverted(items, id) == SelectSeq(items, LAMBDA x : x.id = id)

\* FilteredItems written as splice(findIndex, 1): an index of -1 drops the last item
FilteredItems_Splice(items, id) ==
  IF Has(items, id) THEN SelectSeq(items, LAMBDA x : x.id # id)
  ELSE SubSeq(items, 1, Len(items) - 1)

\* line 97: getCart().filter((x) => x.id !== id)
FilteredItems(items, id) == SelectSeq(items, LAMBDA x : x.id # id)

\* AdjustedItems without the floor of line 108
AdjustedItems_NoFloor(items, id, delta) ==
  [items EXCEPT ![Find(items, id)].quantity = @ + delta]

\* AdjustedItems that drops the item when its quantity falls below 1
AdjustedItems_RemoveAtZero(items, id, delta) ==
  IF items[Find(items, id)].quantity + delta < 1
  THEN SelectSeq(items, LAMBDA x : x.id # id)
  ELSE [items EXCEPT ![Find(items, id)].quantity = @ + delta]

\* AdjustedItems that adjusts every item instead of the one found
AdjustedItems_All(items, id, delta) ==
  [i \in 1..Len(items) |->
     [items[i] EXCEPT !.quantity = IF @ + delta < 1 THEN 1 ELSE @ + delta]]

\* lines 107-108: item.quantity += delta, then the floor of 1
AdjustedItems(items, id, delta) ==
  [items EXCEPT ![Find(items, id)].quantity =
     IF @ + delta < 1 THEN 1 ELSE @ + delta]

----------------------------------------------------------------------------
(* Rendering *)

RECURSIVE Groups(_)
\* toLocaleString("en-NG"): the digits in groups of three
Groups(n) == IF n < 1000 THEN << n >> ELSE Append(Groups(n \div 1000), n % 1000)

\* the naira sign followed by the grouped digits
formatCurrency(amount) == [symbol |-> "NAIRA", groups |-> Groups(amount)]

\* SumQuantity that counts the items instead of adding their quantities
SumQuantity_CountItems(items) == Len(items)

RECURSIVE SumQuantity(_)
\* cart.reduce((sum, item) => sum + item.quantity, 0)
SumQuantity(items) ==
  IF items = << >> THEN 0 ELSE Head(items).quantity + SumQuantity(Tail(items))

RECURSIVE SumLineTotals_NoQuantity(_)
\* SumLineTotals that adds the unit prices, without the quantities
SumLineTotals_NoQuantity(items) ==
  IF items = << >> THEN 0
  ELSE Head(items).price + SumLineTotals_NoQuantity(Tail(items))

RECURSIVE SumLineTotals(_)
\* total += item.price * item.quantity over the items
SumLineTotals(items) ==
  IF items = << >> THEN 0
  ELSE Head(items).price * Head(items).quantity + SumLineTotals(Tail(items))

\* content of an element the script has not written
Static == [k |-> "static"]

\* the text updateCartCount gives one [data-cart-count] element
CountText(el, count) ==
  IF el.tag = "SPAN" \/ el.badge THEN [k |-> "number", n |-> count]
  ELSE [k |-> "label", n |-> count]

CountTexts(els, items) ==
  [i \in 1..Len(els) |-> CountText(els[i], SumQuantity(items))]

EmptyView == [k |-> "empty", rows |-> << >>]

\* the markup renderCart writes into #cart-mount
CartMarkup(items, nested) ==
  IF Len(items) = 0 THEN EmptyView
  ELSE [k |-> "rows",
        rows |-> [i \in 1..Len(items) |->
          [img |-> resolveImagePath(items[i].image, nested),
           title |-> items[i].title,
           unit |-> formatCurrency(items[i].price),
           id |-> items[i].id,
           quantity |-> items[i].quantity,
           lineTotal |-> formatCurrency(items[i].price * items[i].quantity)]]]

\* the markup renderCheckout writes into #checkout-mount
CheckoutMarkup(items, nested) ==
  IF Len(items) = 0 THEN EmptyView
  ELSE [k |-> "rows",
        rows |-> [i \in 1..Len(items) |->
          [img |-> resolveImagePath(items[i].image, nested),
           title |-> items[i].title,
           quantity |-> items[i].quantity,
           unit |-> formatCurrency(items[i].price),
           lineTotal |-> formatCurrency(items[i].price * items[i].quantity)]]]

\* the cart is re-read from the store as it is after the handler's write
updateCartCount ==
  countText' = CountTexts(page.countEls, getCart(storage').a)

\* saveCart without the badge refresh of line 47
saveCart_NoCount(cart) ==
  /\ storage' = JSONstringify(cart)
  /\ UNCHANGED countText

saveCart(cart) ==
  /\ storage' = JSONstringify(cart)
  /\ updateCartCount

\* renderCart whose empty branch leaves the total as it was (no line 128)
renderCart_EmptyKeepsTotal ==
  IF ~page.cartMount THEN UNCHANGED << cartView, cartTotal >>
  ELSE LET cart == getCart(storage')
       IN  /\ cartView' = CartMarkup(cart.a, page.nested)
           /\ cartTotal' = IF page.cartTotalEl /\ Len(cart.a) # 0
                           THEN formatCurrency(SumLineTotals(cart.a))
                           ELSE cartTotal

renderCart ==
  IF ~page.cartMount THEN UNCHANGED << cartView, cartTotal >>
  ELSE LET cart == getCart(storage')
       IN  /\ cartView' = CartMarkup(cart.a, page.nested)
           /\ cartTotal' = IF page.cartTotalEl
                           THEN formatCurrency(SumLineTotals(cart.a))
                           ELSE cartTotal

renderCheckout ==
  IF ~page.checkoutMount THEN UNCHANGED << checkoutView, checkoutTotal >>
  ELSE LET cart == getCart(storage')
       IN  /\ checkoutView' = CheckoutMarkup(cart.a, page.nested)
           /\ checkoutTotal' = IF page.checkoutTotalEl
                               THEN formatCurrency(SumLineTotals(cart.a))
                               ELSE checkoutTotal

----------------------------------------------------------------------------
(* History *)

\* op and id: the call; q: the quantity the id had before it (for clearCart the
\* number of items); low: updateQuantity was given a delta <= -q; r: for
\* addToCart, the quantity a removeFromCart of the same id took away just before;
\* here: the call was made on the current document
NoOp ==
  [op |-> "none", id |-> "", low |-> FALSE, q |-> 0, r |-> 0, here |-> FALSE]

NoProduct == [id |-> "", title |-> "", price |-> 0, image |-> << >>]

NoHist == [n |-> 0, first |-> NoProduct]

\* the items of the persisted cart, empty when the stored value is no array
Persisted == IF IsArray(getCart(storage)) THEN getCart(storage).a ELSE << >>

----------------------------------------------------------------------------
(* Handlers *)

ButtonLabel == "Add to Cart"

\* a handler that throws leaves the store and the document as they were
Throw ==
  /\ err' = "TypeError"
  /\ UNCHANGED << storage, dom, buttons, hist >>

\* line 221 and lines 237-239; updateCartCount throws when the stored value is
\* no array, after the click listener has been registered
init ==
  /\ ~loaded
  /\ loaded' = TRUE
  /\ IF IsArray(getCart(storage))
     THEN /\ UNCHANGED storage
          /\ updateCartCount
          /\ renderCart
          /\ renderCheckout
          /\ err' = "none"
          /\ UNCHANGED << buttons, hist >>
     ELSE Throw
  /\ UNCHANGED << page, lastOp >>

\* the browser loads a page of the site: a fresh document, no timers
navigate(layout) ==
  /\ page' = layout
  /\ loaded' = FALSE
  /\ countText' = [i \in 1..Len(layout.countEls) |-> Static]
  /\ cartView' = Static
  /\ cartTotal' = Static
  /\ checkoutView' = Static
  /\ checkoutTotal' = Static
  /\ btnText' = [id \in Ids |-> ButtonLabel]
  /\ btnGold' = [id \in Ids |-> FALSE]
  /\ timers' = << >>
  /\ err' = "none"
  /\ lastOp' = [lastOp EXCEPT !.here = FALSE]
  /\ UNCHANGED << storage, hist >>

\* a click on the [data-add-to-cart] button of product
addToCart(product) ==
  LET cart == getCart(storage)
      before == IF IsArray(cart) THEN QtyOf(cart.a, product.id) ELSE 0
  IN  /\ loaded
      /\ product \in page.products
      /\ Len(timers) < MaxTimers
      /\ before < MaxQty
      /\ lastOp' = [op |-> "add", id |-> product.id, low |-> FALSE, q |-> before,
                    r |-> IF lastOp.op = "remove" /\ lastOp.id = product.id
                          THEN lastOp.q ELSE 0,
                    here |-> TRUE]
      /\ IF IsArray(cart)
         THEN /\ saveCart(JsArray(AddedItems(cart.a, product)))
              /\ btnText' = [btnText EXCEPT ![product.id] = "Added!"]
              /\ btnGold' = [btnGold EXCEPT ![product.id] = TRUE]
              /\ timers' = Append(timers, [id |-> product.id,
                                           originalText |-> btnText[product.id]])
              /\ hist' = [hist EXCEPT ![product.id] =
                            IF before = 0 THEN [n |-> 1, first |-> product]
                            ELSE IF @.n > 0 THEN [@ EXCEPT !.n = @ + 1] ELSE @]
              /\ err' = "none"
              /\ UNCHANGED << cartView, cartTotal, checkoutView, checkoutTotal >>
         ELSE Throw
      /\ UNCHANGED << loaded, page >>

\* lines 88-91: the oldest pending feedback timer fires
feedbackTimeout ==
  /\ timers # << >>
  /\ btnText' = [btnText EXCEPT ![Head(timers).id] = Head(timers).originalText]
  /\ btnGold' = [btnGold EXCEPT ![Head(timers).id] = FALSE]
  /\ timers' = Tail(timers)
  /\ UNCHANGED << storage, loaded, page, dom, err, lastOp, hist >>

removeFromCart(id) ==
  LET cart == getCart(storage)
      before == IF IsArray(cart) THEN QtyOf(cart.a, id) ELSE 0
  IN  /\ loaded
      /\ lastOp' = [op |-> "remove", id |-> id, low |-> FALSE, q |-> before,
                    r |-> 0, here |-> TRUE]
      /\ IF IsArray(cart)
         THEN /\ saveCart(JsArray(FilteredItems(cart.a, id)))
              /\ renderCart
              /\ hist' = [hist EXCEPT ![id] = NoHist]
              /\ err' = "none"
              /\ UNCHANGED << checkoutView, checkoutTotal, buttons >>
         ELSE Throw
      /\ UNCHANGED << loaded, page >>

updateQuantity(id, delta) ==
  LET cart == getCart(storage)
      before == IF IsArray(cart) THEN QtyOf(cart.a, id) ELSE 0
  IN  /\ loaded
      /\ before + delta <= MaxQty
      /\ lastOp' = [op |-> "update", id |-> id, low |-> delta <= -before,
                    q |-> before, r |-> 0, here |-> TRUE]
      /\ IF ~IsArray(cart) THEN Throw
         ELSE IF ~Has(cart.a, id)
         THEN /\ err' = "none"
              /\ UNCHANGED << storage, dom, buttons, hist >>
         ELSE /\ saveCart(JsArray(AdjustedItems(cart.a, id, delta)))
              /\ renderCart
              /\ hist' = [hist EXCEPT ![id] = NoHist]
              /\ err' = "none"
              /\ UNCHANGED << checkoutView, checkoutTotal, buttons >>
      /\ UNCHANGED << loaded, page >>

clearCart ==
  /\ loaded
  /\ lastOp' = [op |-> "clear", id |-> "", low |-> FALSE, q |-> Len(Persisted),
                r |-> 0, here |-> TRUE]
  /\ saveCart(JsArray(<< >>))
  /\ renderCart
  /\ hist' = [id \in Ids |-> NoHist]
  /\ err' = "none"
  /\ UNCHANGED << checkoutView, checkoutTotal, buttons, loaded, page >>

----------------------------------------------------------------------------
(* Specifications *)

EmptyArrayText == JSONstringify(JsArray(<< >>))

\* what a visitor's store may hold when the first page loads
StoredValues ==
  { NoEntry, EmptyText, NotJsonText, JsonText(JsNull), JsonText(JsNumber(5)),
    JsonText(JsObject), EmptyArrayText }

InitDocument ==
  /\ page \in Layouts
  /\ loaded = FALSE
  /\ countText = [i \in 1..Len(page.countEls) |-> Static]
  /\ cartView = Static
  /\ cartTotal = Static
  /\ checkoutView = Static
  /\ checkoutTotal = Static
  /\ btnText = [id \in Ids |-> ButtonLabel]
  /\ btnGold = [id \in Ids |-> FALSE]
  /\ timers = << >>
  /\ err = "none"
  /\ lastOp = NoOp
  /\ hist = [id \in Ids |-> NoHist]

\* the store is absent or holds an empty cart
Init ==
  /\ storage \in {NoEntry, EmptyArrayText}
  /\ InitDocument

\* the store holds any value
InitAny ==
  /\ storage \in StoredValues
  /\ InitDocument

Next ==
  \/ init
  \/ \E layout \in Layouts : navigate(layout)
  \/ \E product \in Products : addToCart(product)
  \/ feedbackTimeout
  \/ \E id \in Ids : removeFromCart(id)
  \/ \E id \in Ids, delta \in Deltas : updateQuantity(id, delta)
  \/ clearCart

Spec == Init /\ [][Next]_vars

SpecAny == InitAny /\ [][Next]_vars

----------------------------------------------------------------------------
(* Rendering of stored image paths *)

PathSegments == {ParentPrefix, HttpPrefix, SlashSlash, << "a" >>, << "." >>}

RECURSIVE PathsUpTo(_)
\* the paths made of at most n segments
PathsUpTo(n) ==
  IF n = 0 THEN {<< >>}
  ELSE PathsUpTo(n - 1) \cup
       {p \o seg : p \in PathsUpTo(n - 1), seg \in PathSegments}

PathSet ==
  PathsUpTo(MaxSegments) \cup {AssetsCover, UpAssetsCover, UpUpAssetsCover, HttpCover}

\* a cart of one item whose stored image is path
StoredWithImage(path) ==
  JSONstringify(JsArray(<< [id |-> "b1", title |-> "Dune", price |-> 1000,
                           image |-> path, quantity |-> 1] >>))

\* a page loads on a store that holds one item with any image path
InitRender ==
  /\ storage \in {StoredWithImage(path) : path \in PathSet}
  /\ InitDocument
  /\ page = CataloguePage

NextRender ==
  \/ init
  \/ \E layout \in Layouts : navigate(layout)

SpecRender == InitRender /\ [][NextRender]_vars

----------------------------------------------------------------------------
(* A second page instance on the same store: its handlers run the same code,
   its document is not part of the state *)

otherAddToCart(product) ==
  LET cart == getCart(storage)
      before == IF IsArray(cart) THEN QtyOf(cart.a, product.id) ELSE 0
  IN  /\ before < MaxQty
      /\ lastOp' = [op |-> "add", id |-> product.id, low |-> FALSE, q |-> before,
                    r |-> IF lastOp.op = "remove" /\ lastOp.id = product.id
                          THEN lastOp.q ELSE 0,
                    here |-> FALSE]
      /\ IF IsArray(cart)
         THEN /\ storage' = JSONstringify(JsArray(AddedItems(cart.a, product)))
              /\ hist' = [hist EXCEPT ![product.id] =
                            IF before = 0 THEN [n |-> 1, first |-> product]
                            ELSE IF @.n > 0 THEN [@ EXCEPT !.n = @ + 1] ELSE @]
         ELSE UNCHANGED << storage, hist >>
      /\ UNCHANGED << loaded, page, dom, buttons, err >>

otherRemoveFromCart(id) ==
  LET cart == getCart(storage)
      before == IF IsArray(cart) THEN QtyOf(cart.a, id) ELSE 0
  IN  /\ lastOp' = [op |-> "remove", id |-> id, low |-> FALSE, q |-> before,
                    r |-> 0, here |-> FALSE]
      /\ IF IsArray(cart)
         THEN /\ storage' = JSONstringify(JsArray(FilteredItems(cart.a, id)))
              /\ hist' = [hist EXCEPT ![id] = NoHist]
         ELSE UNCHANGED << storage, hist >>
      /\ UNCHANGED << loaded, page, dom, buttons, err >>

otherUpdateQuantity(id, delta) ==
  LET cart == getCart(storage)
      before == IF IsArray(cart) THEN QtyOf(cart.a, id) ELSE 0
  IN  /\ before + delta <= MaxQty
      /\ lastOp' = [op |-> "update", id |-> id, low |-> delta <= -before,
                    q |-> before, r |-> 0, here |-> FALSE]
      /\ IF IsArray(cart) /\ Has(cart.a, id)
         THEN /\ storage' = JSONstringify(JsArray(AdjustedItems(cart.a, id, delta)))
              /\ hist' = [hist EXCEPT ![id] = NoHist]
         ELSE UNCHANGED << storage, hist >>
      /\ UNCHANGED << loaded, page, dom, buttons, err >>

\* the deltas the buttons of a rendered cart row pass to updateQuantity
ButtonDeltas == {-1, 1}

\* the add buttons the two instances show between them
TabProducts == {DuneDetails, EmmaDeep}

\* the tracked instance shows the catalogue; the store is absent or empty
InitTabs ==
  /\ Init
  /\ page = CataloguePage

NextTabs ==
  \/ init
  \/ \E product \in TabProducts : addToCart(product)
  \/ feedbackTimeout
  \/ \E id \in Ids : removeFromCart(id)
  \/ \E id \in Ids, delta \in ButtonDeltas : updateQuantity(id, delta)
  \/ \E product \in TabProducts : otherAddToCart(product)
  \/ \E id \in Ids : otherRemoveFromCart(id)
  \/ \E id \in Ids, delta \in ButtonDeltas : otherUpdateQuantity(id, delta)

SpecTabs == InitTabs /\ [][NextTabs]_vars

----------------------------------------------------------------------------
(* Properties *)

\* the nth item of the persisted cart that has this id
ItemOf(id) == Persisted[Find(Persisted, id)]

\* C1: no two items of the persisted cart share an id, after any sequence of
\* addToCart, removeFromCart, updateQuantity and clearCart calls on a store that
\* was absent or empty
C1_UniqueIds ==
  \A i, j \in 1..Len(Persisted) : i # j => Persisted[i].id # Persisted[j].id

\* an addToCart call met its id in a cart of two items
C1_Witness ==
  /\ lastOp.op = "add"
  /\ lastOp.q >= 1
  /\ Len(Persisted) = 2

\* C2: every item of the persisted cart has quantity >= 1, whatever deltas
\* updateQuantity was called with
C2_QuantityAtLeastOne ==
  \A i \in 1..Len(Persisted) : Persisted[i].quantity >= 1

\* updateQuantity was asked to take an item of a two-item cart to zero or below
C2_Witness ==
  /\ lastOp.op = "update"
  /\ lastOp.low
  /\ lastOp.q >= 1
  /\ Len(Persisted) = 2

\* C3 as stated: after n addToCart calls for an id that was absent, the item has
\* quantity n and the title, price and image of the first call's descriptor
C3_FirstDescriptorKept ==
  \A id \in Ids :
    hist[id].n > 0 =>
      /\ Has(Persisted, id)
      /\ ItemOf(id).quantity = hist[id].n
      /\ ItemOf(id).title = hist[id].first.title
      /\ ItemOf(id).price = hist[id].first.price
      /\ ItemOf(id).image = hist[id].first.image

\* C3 amended: after n addToCart calls for an id that was absent, the item has
\* quantity n, the title and price of the first call's descriptor, and the first
\* call's image with one leading "../" removed
C3_FirstDescriptorNormalized ==
  \A id \in Ids :
    hist[id].n > 0 =>
      /\ Has(Persisted, id)
      /\ ItemOf(id).quantity = hist[id].n
      /\ ItemOf(id).title = hist[id].first.title
      /\ ItemOf(id).price = hist[id].first.price
      /\ ItemOf(id).image = normalizePathForStorage(hist[id].first.image)

\* b1 was first added from the details page ("../" image) and then again from
\* the cart page that offers it under another title, price and image
C3_Witness ==
  /\ hist["b1"] = [n |-> 2, first |-> DuneDetails]
  /\ lastOp.op = "add"
  /\ lastOp.here
  /\ page = CartWithOfferPage
  /\ DuneRoot \in page.products

\* the stored value is the JSON text of an array of cart items
WellFormedCart(raw) == raw.k = "json" /\ raw.doc.t = "array"

\* C4: getCart returns the stored sequence when the stored value is a
\* well-formed cart, and an empty array for every other stored value (absent,
\* not JSON, or JSON that is no cart: null, a number, an object)
C4_LoadGivesCart ==
  /\ IsArray(getCart(storage))
  /\ WellFormedCart(storage) => JSONstringify(getCart(storage)) = storage
  /\ ~WellFormedCart(storage) => getCart(storage) = JsArray(<< >>)

\* C5: no image of the persisted cart begins with "../", whatever image paths
\* addToCart was given
C5_NoParentPrefixStored ==
  \A i \in 1..Len(Persisted) : ~StartsWith(Persisted[i].image, ParentPrefix)

\* a mutation that changes the store was called on the current document
Mutated ==
  /\ lastOp.here
  /\ \/ lastOp.op \in {"add", "remove", "clear"}
     \/ lastOp.op = "update" /\ lastOp.q >= 1

BadgeFresh == countText = CountTexts(page.countEls, Persisted)

CartViewFresh ==
  page.cartMount =>
    /\ cartView = CartMarkup(Persisted, page.nested)
    /\ page.cartTotalEl => cartTotal = formatCurrency(SumLineTotals(Persisted))

CheckoutViewFresh ==
  page.checkoutMount =>
    /\ checkoutView = CheckoutMarkup(Persisted, page.nested)
    /\ page.checkoutTotalEl =>
         checkoutTotal = formatCurrency(SumLineTotals(Persisted))

\* C6 as stated: once a mutation has completed, the count badge, the cart view
\* and the checkout view all show the current persisted cart
C6_AllViewsFresh ==
  Mutated => BadgeFresh /\ CartViewFresh /\ CheckoutViewFresh

\* C6 amended: once a mutation has completed, the count badge shows the current
\* persisted cart, and after removeFromCart, updateQuantity on an existing id
\* and clearCart so does the cart view with its total
C6_BadgeAndCartViewFresh ==
  Mutated =>
    /\ BadgeFresh
    /\ lastOp.op \in {"remove", "update", "clear"} => CartViewFresh

\* an item was removed on the cart page, which has count elements, and another
\* item is left to show
C6_Witness ==
  /\ Mutated
  /\ lastOp.op = "remove"
  /\ lastOp.q >= 1
  /\ page = CartPage
  /\ Persisted # << >>

\* C7: updateQuantity(id, -N) with N >= q on an item of quantity q leaves the
\* item in the cart with quantity exactly 1
C7_DecrementFloorsAtOne ==
  (lastOp.op = "update" /\ lastOp.q >= 1 /\ lastOp.low) =>
    /\ Has(Persisted, lastOp.id)
    /\ ItemOf(lastOp.id).quantity = 1

\* an item of quantity 2 or more was decremented by at least its quantity
C7_Witness ==
  /\ lastOp.op = "update"
  /\ lastOp.q >= 2
  /\ lastOp.low
  /\ QtyOf(Persisted, lastOp.id) = 1

\* C8: removeFromCart(id) followed by addToCart of the same id yields an item of
\* quantity 1, whatever quantity the item had before
C8_RemoveThenAddIsFresh ==
  (lastOp.op = "add" /\ lastOp.r >= 1) =>
    /\ Has(Persisted, lastOp.id)
    /\ ItemOf(lastOp.id).quantity = 1

\* an item of quantity 2 or more was removed and then added again
C8_Witness ==
  /\ lastOp.op = "add"
  /\ lastOp.r >= 2
  /\ QtyOf(Persisted, lastOp.id) = 1

\* C9: removeFromCart(id) and updateQuantity(id, delta) with an id that no item
\* of the cart has raise no error and leave the persisted cart as it was
C9_MissingIdIsNoOp ==
  [][\A id \in Ids :
       (/\ ~Has(Persisted, id)
        /\ \/ removeFromCart(id)
           \/ \E delta \in Deltas : updateQuantity(id, delta))
       => (err' = "none" /\ getCart(storage') = getCart(storage))]_vars

\* a call for an id the cart does not have was made on a cart that has an item
C9_Witness ==
  /\ lastOp.op \in {"remove", "update"}
  /\ lastOp.q = 0
  /\ lastOp.here
  /\ Len(Persisted) >= 1

\* C10: after clearCart the persisted cart is empty, its total is 0, and the
\* cart page shows the empty cart and a total of 0
C10_ClearEmpties ==
  lastOp.op = "clear" =>
    /\ storage = EmptyArrayText
    /\ Persisted = << >>
    /\ SumLineTotals(Persisted) = 0
    /\ lastOp.here => CartViewFresh
    /\ (lastOp.here /\ page.cartMount /\ page.cartTotalEl) =>
         cartTotal = formatCurrency(0)

\* a cart of two items was cleared on the cart page
C10_Witness ==
  /\ lastOp.op = "clear"
  /\ lastOp.q = 2
  /\ lastOp.here
  /\ page = CartPage
  /\ cartTotal = formatCurrency(0)

RECURSIVE PriceTimesQuantity(_, _)
\* the sum of price x quantity over the first n items
PriceTimesQuantity(items, n) ==
  IF n = 0 THEN 0
  ELSE items[n].price * items[n].quantity + PriceTimesQuantity(items, n - 1)

RECURSIVE QuantityTotal(_, _)
\* the sum of the quantities of the first n items
QuantityTotal(items, n) ==
  IF n = 0 THEN 0 ELSE items[n].quantity + QuantityTotal(items, n - 1)

GrandTotalText(items) == formatCurrency(PriceTimesQuantity(items, Len(items)))

\* C11 as stated: in every state the cart-page total and the checkout-summary
\* total equal the sum of price x quantity over the current persisted cart
C11_TotalsFollowStore ==
  (loaded /\ err = "none") =>
    /\ (page.cartMount /\ page.cartTotalEl) => cartTotal = GrandTotalText(Persisted)
    /\ (page.checkoutMount /\ page.checkoutTotalEl) =>
         checkoutTotal = GrandTotalText(Persisted)

\* C11 amended: every total the script writes equals the sum of price x quantity
\* over the persisted cart at that moment, and init writes both totals
C11_WrittenTotalsAreSums ==
  [][/\ cartTotal' # cartTotal =>
          (cartTotal' = Static \/ cartTotal' = GrandTotalText(Persisted'))
     /\ checkoutTotal' # checkoutTotal =>
          (checkoutTotal' = Static \/ checkoutTotal' = GrandTotalText(Persisted'))
     /\ (~loaded /\ loaded' /\ err' = "none") =>
          /\ (page.cartMount /\ page.cartTotalEl) =>
               cartTotal' = GrandTotalText(Persisted')
          /\ (page.checkoutMount /\ page.checkoutTotalEl) =>
               checkoutTotal' = GrandTotalText(Persisted')]_vars

\* the cart page shows 4,500 for two items at 1000 and one at 2500
C11_Witness ==
  /\ page = CartPage
  /\ loaded
  /\ Len(Persisted) = 2
  /\ Persisted[1].price = 1000 /\ Persisted[1].quantity = 2
  /\ Persisted[2].price = 2500 /\ Persisted[2].quantity = 1
  /\ cartTotal = [symbol |-> "NAIRA", groups |-> << 4, 500 >>]

\* C12: after every save made by a mutation, every count element shows the sum
\* of the quantities of the persisted cart, bare or as "Cart (N)"
C12_BadgeShowsQuantitySum ==
  Mutated =>
    /\ Len(countText) = Len(page.countEls)
    /\ \A i \in 1..Len(page.countEls) :
         /\ countText[i].k =
              IF page.countEls[i].tag = "SPAN" \/ page.countEls[i].badge
              THEN "number" ELSE "label"
         /\ countText[i].n = QuantityTotal(Persisted, Len(Persisted))

\* a mutation on the cart page left two items with three copies in all
C12_Witness ==
  /\ Mutated
  /\ page = CartPage
  /\ Len(Persisted) = 2
  /\ countText = << [k |-> "number", n |-> 3], [k |-> "label", n |-> 3] >>

\* C13: addToCart, removeFromCart, updateQuantity and clearCart complete without
\* raising an error whatever the store holds
C13_MutationsNeverThrow ==
  (lastOp.here /\ lastOp.op \in {"add", "remove", "update", "clear"}) =>
    err = "none"

\* the ids of the items, in cart order
IdsOf(items) == [i \in 1..Len(items) |-> items[i].id]

In(seq, x) == \E i \in 1..Len(seq) : seq[i] = x

\* old and new are the ids of a cart before and after a step
OrderKept(old, new) ==
  LET kept == SelectSeq(old, LAMBDA x : In(new, x))
  IN  /\ SubSeq(new, 1, Len(kept)) = kept
      /\ \A i \in (Len(kept) + 1)..Len(new) : ~In(old, new[i])

C16_FeedbackReset ==
  (loaded /\ timers = << >>) =>
    \A id \in Ids : btnText[id] = ButtonLabel /\ ~btnGold[id]

\* the items whose id is not id
Others(items, id) == SelectSeq(items, LAMBDA x : x.id # id)

\* before and after are the cart around a call aimed at id
FrameKept(before, after, id) ==
  /\ Others(after, id) = Others(before, id)
  /\ (Has(before, id) /\ Has(after, id)) =>
       /\ after[Find(after, id)].title = before[Find(before, id)].title
       /\ after[Find(after, id)].price = before[Find(before, id)].price
       /\ after[Find(after, id)].image = before[Find(before, id)].image

\* C18: addToCart, removeFromCart and updateQuantity aimed at id X leave every
\* item of another id as it was, and addToCart on an existing X and
\* updateQuantity change nothing of X but its quantity (lastOp' names the call
\* of the step that wrote the store)
C18_OtherItemsUntouched ==
  [][(storage' # storage /\ lastOp'.op \in {"add", "remove", "update"}) =>
       \A before \in {Persisted} : \A after \in {Persisted'} :
         FrameKept(before, after, lastOp'.id)]_vars

\* the quantity of b1 was raised while b2 lay in the cart with two copies
C18_Witness ==
  /\ lastOp.op \in {"add", "update"}
  /\ lastOp.id = "b1"
  /\ lastOp.q = 1
  /\ ~lastOp.low
  /\ QtyOf(Persisted, "b1") = 2
  /\ QtyOf(Persisted, "b2") = 2

HasUp(path) == StartsWith(path, ParentPrefix)

External(path) == StartsWith(path, HttpPrefix) \/ StartsWith(path, SlashSlash)

\* out is what the five cases give for path on a nested or a root page
Resolved(path, nested, out) ==
  /\ path = << >> => out = << >>
  /\ (path # << >> /\ External(path)) => out = path
  /\ (path # << >> /\ ~External(path) /\ nested /\ ~HasUp(path)) =>
       (out = ParentPrefix \o path /\ ~HasUp(SubSeq(out, 4, Len(out))))
  /\ (path # << >> /\ ~External(path) /\ ~nested /\ HasUp(path)) =>
       ParentPrefix \o out = path
  /\ (path # << >> /\ ~External(path) /\ (nested <=> HasUp(path))) => out = path

\* C15: every image the views show is the stored path resolved by the five
\* cases (empty; http or "//" unchanged; nested without "../" gets one; root
\* with "../" loses one; otherwise unchanged), and the three examples hold
C15_ResolveFollowsContract ==
  /\ (loaded /\ err = "none" /\ page.cartMount) =>
       /\ cartView.k = "rows"
       /\ \A i \in 1..Len(Persisted) :
            Resolved(Persisted[i].image, page.nested, cartView.rows[i].img)
  /\ (loaded /\ err = "none" /\ page.checkoutMount) =>
       /\ checkoutView.k = "rows"
       /\ \A i \in 1..Len(Persisted) :
            Resolved(Persisted[i].image, page.nested, checkoutView.rows[i].img)
  /\ resolveImagePath(AssetsCover, TRUE) = UpAssetsCover
  /\ resolveImagePath(UpAssetsCover, FALSE) = AssetsCover
  /\ resolveImagePath(HttpCover, TRUE) = HttpCover

\* the nested cart page shows "../assets/cover.jpg" for "assets/cover.jpg"
C15_Witness ==
  /\ loaded
  /\ page = CartWithOfferPage
  /\ Persisted[1].image = AssetsCover
  /\ cartView.k = "rows"
  /\ cartView.rows[1].img = UpAssetsCover

\* addItem applied to a cart, as the mutation contract states it
RefAdd(items, product) ==
  IF \E i \in 1..Len(items) : items[i].id = product.id
  THEN [i \in 1..Len(items) |->
          IF items[i].id = product.id
          THEN [items[i] EXCEPT !.quantity = @ + 1] ELSE items[i]]
  ELSE items \o << [id |-> product.id, title |-> product.title,
                    price |-> product.price,
                    image |-> normalizePathForStorage(product.image),
                    quantity |-> 1] >>

RefRemove(items, id) ==
  LET keep == {i \in 1..Len(items) : items[i].id # id}
      Nth(k) == CHOOSE i \in keep : Cardinality({j \in keep : j <= i}) = k
  IN  [k \in 1..Cardinality(keep) |-> items[Nth(k)]]

RefUpdate(items, id, delta) ==
  [i \in 1..Len(items) |->
     IF items[i].id = id
     THEN [items[i] EXCEPT !.quantity = IF @ + delta >= 1 THEN @ + delta ELSE 1]
     ELSE items[i]]

\* C17: with two page instances on one store, every whole call of either one
\* takes the persisted cart to what the call gives when applied to the cart
\* persisted at its start, so the calls take effect one after another in the
\* order they interleave and none is lost
C17_CallsApplyInOrder ==
  [][\A before \in {Persisted} : \A after \in {Persisted'} :
       /\ lastOp'.op = "add" =>
            \A product \in TabProducts :
              (/\ lastOp'.id = product.id
               /\ addToCart(product) \/ otherAddToCart(product)) =>
                after = RefAdd(before, product)
       /\ lastOp'.op = "remove" =>
            \A id \in {lastOp'.id} :
              (removeFromCart(id) \/ otherRemoveFromCart(id)) =>
                after = RefRemove(before, id)
       /\ lastOp'.op = "update" =>
            \A id \in {lastOp'.id}, delta \in ButtonDeltas :
              (updateQuantity(id, delta) \/ otherUpdateQuantity(id, delta)) =>
                after = RefUpdate(before, id, delta)]_vars

\* b2 was added on the tracked page, whose feedback timer is still pending, and
\* then by the other instance: its quantity is the number of both calls
C17_Witness ==
  /\ lastOp.op = "add"
  /\ lastOp.id = "b2"
  /\ ~lastOp.here
  /\ loaded
  /\ timers # << >>
  /\ hist["b2"].n = 2
  /\ QtyOf(Persisted, "b2") = 2

====
